---- MODULE Spec2Model ----
(***************************************************************************)
(* Model of aistore's Python client class Object                           *)
(* (sdk/python/aistore/client/object.py): four request-building            *)
(* operations on an object handle bound to a bucket.  The bucket's query   *)
(* parameter dict, the request dispatcher (bck.client.request), the local  *)
(* filesystem and the response headers are the environment.                *)
(*                                                                         *)
(* Python values are represented as follows:                               *)
(*   dict            a set of <<key, value>> pairs, one pair per key       *)
(*   None / a dict   [kind |-> "None" | "dict", items |-> pairs]           *)
(*   optional value  {} (absent) or {v} (present)                          *)
(*   header string   content-length: the sequence of its code points       *)
(***************************************************************************)
EXTENDS Integers, Sequences, FiniteSets, TLC

VARIABLES bck_name,   \* self.bck.name, fixed at construction
          defaults,   \* the bucket's query parameters as constructed
          qparam,     \* the dict object self.bck.qparam, shared by all handles
          pending,    \* per thread, the call blocked in client.request, if any
          call        \* the last completed call: inputs, footprint and outcome

vars == <<bck_name, defaults, qparam, pending, call>>

----------------------------------------------------------------------------
(* Bounds and input sets *)

MaxHdrLen == 1

\* The calling threads; each works on its own handle of the one bucket.
Threads == {"A", "B"}

\* Code points of "1" and "a".
Chars == {49, 97}

\* The buckets tried: a name and a provider each.
Buckets == {[name |-> "images", provider |-> "ais"],
            [name |-> "b k", provider |-> "aws"]}
ArchArgs == {{}, {"a.txt"}}
ChunkArgs == {{}, {4}}
LocalPaths == {"/tmp/cat.png"}
ChecksumValues == {{}, {"abc123"}}
ChecksumTypes == {{}, {"xxhash"}}
DispErrors == {"ConnectionError", "ReadTimeout", "HTTPError404"}
FsErrors == {"FileNotFoundError", "PermissionError"}

----------------------------------------------------------------------------
(* Imported constants *)

HTTP_METHOD_DELETE == "DELETE"
HTTP_METHOD_GET == "GET"
HTTP_METHOD_HEAD == "HEAD"
HTTP_METHOD_PUT == "PUT"
QParamArchpath == "archpath"
QParamProvider == "provider"

DefaultArchpath == ""
DefaultChunkSize == 1

----------------------------------------------------------------------------
(* Python built-ins used by the handlers *)

None == [kind |-> "None", items |-> {}]
Dict(m) == [kind |-> "dict", items |-> m]

\* d.update({k: v}): the dict is changed in place, the call evaluates to None.
dict_update(d, k, v) ==
    [dict |-> {p \in d : p[1] # k} \cup {<<k, v>>}, ret |-> None]

\* The error the dispatcher raised for the call's request, if it raised one.
raised_by(d) == IF d.raised THEN {d.error} ELSE {}

\* An argument with a default value.
ArgOr(arg, dflt) == IF arg = {} THEN dflt ELSE CHOOSE v \in arg : TRUE

\* resp.headers.get(name, default) for a string-valued default
headers_get(h, name, dflt) == IF h[name] = {} THEN dflt ELSE CHOOSE v \in h[name] : TRUE

\* int(s) of a str s works on code points.  Characters it strips from both
\* ends: the ASCII ones \t \n \v \f \r and space, and the Unicode spaces above
\* U+007F (U+001C..U+001F are not stripped).
Whitespace ==
    {9, 10, 11, 12, 13, 32, 133, 160, 5760} \cup (8192..8202)
    \cup {8232, 8233, 8239, 8287, 12288}

\* The code points of the zero of every Unicode decimal digit block (category
\* Nd, Unicode 14): each block is ten consecutive code points, zero to nine.
DigitZeros ==
    {48, 1632, 1776, 1984, 2406, 2534, 2662, 2790, 2918, 3046, 3174, 3302,
     3430, 3558, 3664, 3792, 3872, 4160, 4240, 6112, 6160, 6470, 6608, 6784,
     6800, 6992, 7088, 7232, 7248, 42528, 43216, 43264, 43472, 43504, 43600,
     44016, 65296, 66720, 68912, 69734, 69872, 69942, 70096, 70384, 70736,
     70864, 71248, 71360, 71472, 71904, 72016, 72784, 73040, 73120, 92768,
     92864, 93008, 120782, 120792, 120802, 120812, 120822, 123200, 123632,
     125264, 130032}

IsDigit(c) == \E z \in DigitZeros : c \in z..(z + 9)
DigitVal(c) == c - (CHOOSE z \in DigitZeros : c \in z..(z + 9))

\* Code points of "+", "-" and "_".
PlusSign == {43}
MinusSign == {45}
Underscore == {95}

\* sys.int_max_str_digits: int() refuses a string of more decimal digits.
IntMaxStrDigits == 4300

RECURSIVE LStrip(_)
LStrip(s) == IF s # <<>> /\ Head(s) \in Whitespace THEN LStrip(Tail(s)) ELSE s

RECURSIVE RStrip(_)
RStrip(s) ==
    IF s # <<>> /\ s[Len(s)] \in Whitespace THEN RStrip(SubSeq(s, 1, Len(s) - 1)) ELSE s

\* Decimal digits, single underscores allowed between two digits, and no more
\* digits than the conversion limit.
ValidDigits(s) ==
    /\ Len(s) > 0
    /\ IsDigit(s[1])
    /\ IsDigit(s[Len(s)])
    /\ \A i \in 1..Len(s) :
          \/ IsDigit(s[i])
          \/ s[i] \in Underscore /\ IsDigit(s[i - 1]) /\ IsDigit(s[i + 1])
    /\ Cardinality({i \in 1..Len(s) : IsDigit(s[i])}) <= IntMaxStrDigits

RECURSIVE DigitsValue(_, _)
DigitsValue(s, acc) ==
    IF s = <<>> THEN acc
    ELSE IF Head(s) \in Underscore THEN DigitsValue(Tail(s), acc)
    ELSE DigitsValue(Tail(s), 10 * acc + DigitVal(Head(s)))

\* int(s) for a str s: ok = FALSE stands for ValueError.
int_str(s) ==
    LET t    == RStrip(LStrip(s))
        sgn  == IF t # <<>> /\ Head(t) \in MinusSign THEN -1 ELSE 1
        body == IF t # <<>> /\ Head(t) \in PlusSign \cup MinusSign
                THEN Tail(t) ELSE t
    IN  IF ValidDigits(body)
        THEN [ok |-> TRUE, val |-> sgn * DigitsValue(body, 0)]
        ELSE [ok |-> FALSE, val |-> 0]

\* int(resp.headers.get("content-length", 0)): the default is the int 0.
content_length(h) ==
    IF h["content-length"] = {} THEN [ok |-> TRUE, val |-> 0]
    ELSE int_str(CHOOSE v \in h["content-length"] : TRUE)

----------------------------------------------------------------------------
(* Environment: the dispatcher's answers *)

HdrVals == UNION {[1..n -> Chars] : n \in 0..MaxHdrLen}

HeaderNames == {"content-length", "ais-checksum-value", "ais-checksum-type"}

MkHeaders(cl, cv, ct) ==
    [n \in HeaderNames |->
        IF n = "content-length" THEN cl
        ELSE IF n = "ais-checksum-value" THEN cv ELSE ct]

Headers ==
    {MkHeaders(cl, cv, ct) :
        cl \in {{}} \cup {{v} : v \in HdrVals},
        cv \in ChecksumValues,
        ct \in ChecksumTypes}

NoHeaders == MkHeaders({}, {}, {})

\* What bck.client.request does with one request: it raises, or it returns a
\* response carrying headers.
Disp ==
    {[raised |-> TRUE, error |-> e, headers |-> NoHeaders] : e \in DispErrors}
    \cup {[raised |-> FALSE, error |-> "", headers |-> h] : h \in Headers}

\* The answers tried for HEAD, PUT and DELETE requests, whose handlers pass the
\* headers on unread: each error, a response without the three headers and a
\* response with all of them.
PlainDisp ==
    {d \in Disp : d.raised}
    \cup {[raised |-> FALSE, error |-> "", headers |-> h] :
            h \in {NoHeaders, MkHeaders({<<49>>}, {"abc123"}, {"xxhash"})}}

\* What open(path, "rb") does: it returns a handle or raises.
FsResults == {"ok"} \cup FsErrors

----------------------------------------------------------------------------
(* Values built by the handlers *)

Request(method, path, params, stream, data) ==
    [method |-> method, path |-> path, params |-> params,
     stream |-> stream, data |-> data]

\* The response object of a request made with stream=stream: with stream=True
\* the body is left unread on an open connection.
Response(d, stream) ==
    [headers |-> d.headers, streamed |-> stream,
     closed |-> ~stream, body_read |-> ~stream]

\* Variant: the two checksum arguments are passed in the other order.
ObjStream_swapped(content_length_, e_tag, e_tag_type, stream, chunk_size) ==
    [content_length |-> content_length_, e_tag |-> e_tag_type,
     e_tag_type |-> e_tag, stream |-> stream, chunk_size |-> chunk_size]

ObjStream(content_length_, e_tag, e_tag_type, stream, chunk_size) ==
    [content_length |-> content_length_, e_tag |-> e_tag,
     e_tag_type |-> e_tag_type, stream |-> stream, chunk_size |-> chunk_size]

\* open(path, "rb")
FileHandle(path) == [path |-> path, mode |-> "rb", closed |-> FALSE]

\* Variant: the file is closed on the return path only (no with block).
with_exit_return_only(f, outcome) ==
    IF outcome = "return" THEN [f EXCEPT !.closed = TRUE] ELSE f

\* Leaving the with block, by return or by exception, closes the file.
with_exit(f, outcome) == [f EXCEPT !.closed = TRUE]

\* Variant: a request the dispatcher failed is sent a second time.
client_request_retry(r, d) == IF d.raised THEN <<r, r>> ELSE <<r>>

\* One call of self.bck.client.request(...): the requests the dispatcher
\* receives for it.
client_request(r, d) == <<r>>

\* Variant: the dispatcher's error is caught and an empty result returned.
outcome_swallowed(d, ret) ==
    IF d.raised THEN [kind |-> "return", error |-> "", headers |-> {NoHeaders}]
    ELSE [kind |-> "return", error |-> "", headers |-> ret]

\* The outcome of a handler whose request was answered by d, when the handler
\* returns ret on a response: there is no try/except around the request.
outcome_of(d, ret) ==
    IF d.raised THEN [kind |-> "raise", error |-> d.error, headers |-> {}]
    ELSE [kind |-> "return", error |-> "", headers |-> ret]

\* f"objects/{ self.bck.name }/{ self.obj_name }"
object_path(bck, obj) == "objects/" \o bck \o "/" \o obj

\* f"/objects/{ self.bck.name }/{ self.obj_name }"
put_url(bck, obj) == "/objects/" \o bck \o "/" \o obj

NoCall ==
    [op |-> "none", obj |-> "", archpath |-> {}, chunk_size |-> {}, path |-> {},
     requests |-> <<>>, kind |-> "none", error |-> "", headers |-> {},
     stream |-> {}, trace |-> <<>>, files |-> <<>>, responses |-> <<>>,
     disp_error |-> {}]

\* A thread that is not blocked in a call.
Idle ==
    [op |-> "none", obj |-> "", archpath |-> {}, chunk_size |-> {}, path |-> {},
     request |-> {}, files |-> <<>>]

\* Object(bck, obj_name): the handle thread t holds.
obj_name(t) == IF t = "A" THEN "cat.png" ELSE "d/e f"

----------------------------------------------------------------------------
(* State machine.  Every handler builds its request, blocks the calling     *)
(* thread inside self.bck.client.request and goes on when the dispatcher    *)
(* answers: a _send step up to the blocking call, a _recv step after it.    *)

\* The query parameters a bucket of provider p is constructed with; the bucket
\* holds them in one dict that every handle of the bucket reads.
BucketQparam(p) == {<<QParamProvider, p>>}

Init ==
    /\ \E b \in Buckets : bck_name = b.name /\ defaults = BucketQparam(b.provider)
    /\ qparam = defaults
    /\ pending = [t \in Threads |-> Idle]
    /\ call = NoCall

\* The request of the blocked call p.
request_of(p) == CHOOSE r \in p.request : TRUE

\* Object.head_object up to the blocking request.
head_object_send(t) ==
    LET r == Request(HTTP_METHOD_HEAD, object_path(bck_name, obj_name(t)),
                     Dict(qparam), FALSE, {})
    IN  /\ pending[t] = Idle
        /\ pending' = [pending EXCEPT ![t] =
                          [Idle EXCEPT !.op = "head_object", !.obj = obj_name(t),
                                       !.request = {r}]]
        /\ UNCHANGED <<bck_name, defaults, qparam, call>>

\* Object.head_object from the dispatcher's answer d.
head_object_recv(t, d) ==
    LET p == pending[t]
        o == outcome_of(d, {d.headers})
    IN  /\ p.op = "head_object"
        /\ pending' = [pending EXCEPT ![t] = Idle]
        /\ call' = [NoCall EXCEPT !.op = "head_object", !.obj = p.obj,
                        !.requests = client_request(request_of(p), d),
                        !.kind = o.kind, !.error = o.error,
                        !.headers = o.headers,
                        !.trace = <<"request">>,
                        !.disp_error = raised_by(d)]
        /\ UNCHANGED <<bck_name, defaults, qparam>>

\* Object.delete_object up to the blocking request.
delete_object_send(t) ==
    LET r == Request(HTTP_METHOD_DELETE, object_path(bck_name, obj_name(t)),
                     Dict(qparam), FALSE, {})
    IN  /\ pending[t] = Idle
        /\ pending' = [pending EXCEPT ![t] =
                          [Idle EXCEPT !.op = "delete_object", !.obj = obj_name(t),
                                       !.request = {r}]]
        /\ UNCHANGED <<bck_name, defaults, qparam, call>>

\* Object.delete_object from the dispatcher's answer d.
delete_object_recv(t, d) ==
    LET p == pending[t]
        o == outcome_of(d, {})
    IN  /\ p.op = "delete_object"
        /\ pending' = [pending EXCEPT ![t] = Idle]
        /\ call' = [NoCall EXCEPT !.op = "delete_object", !.obj = p.obj,
                        !.requests = client_request(request_of(p), d),
                        !.kind = o.kind, !.error = o.error,
                        !.headers = o.headers,
                        !.trace = <<"request">>,
                        !.disp_error = raised_by(d)]
        /\ UNCHANGED <<bck_name, defaults, qparam>>

\* Variant: the request is sent before the file is opened.
request_before_open(fs, r) == <<r>>

\* The requests made inside "with open(path, "rb") as data:": the block runs
\* only when open() returned a handle.
with_open_requests(fs, r) == IF fs = "ok" THEN <<r>> ELSE <<>>

\* Object.put_object up to the blocking request, or to the error of open().
put_object_send(t, path, fs) ==
    LET r    == Request(HTTP_METHOD_PUT, put_url(bck_name, obj_name(t)),
                        Dict(qparam), FALSE, {path})
        reqs == with_open_requests(fs, r)
    IN  /\ pending[t] = Idle
        /\ IF fs = "ok"
           THEN /\ pending' = [pending EXCEPT ![t] =
                                  [Idle EXCEPT !.op = "put_object",
                                               !.obj = obj_name(t),
                                               !.path = {path},
                                               !.request = {reqs[1]},
                                               !.files = <<FileHandle(path)>>]]
                /\ call' = call
           ELSE /\ pending' = pending
                /\ call' = [NoCall EXCEPT !.op = "put_object",
                                !.obj = obj_name(t), !.path = {path},
                                !.requests = reqs,
                                !.kind = "raise", !.error = fs,
                                !.trace = <<"open">>
                                          \o [i \in 1..Len(reqs) |-> "request"]]
        /\ UNCHANGED <<bck_name, defaults, qparam>>

\* Object.put_object from the dispatcher's answer d: .headers is returned or
\* the error propagates, and the with block is left.
put_object_recv(t, d) ==
    LET p    == pending[t]
        o    == outcome_of(d, {d.headers})
        reqs == client_request(request_of(p), d)
    IN  /\ p.op = "put_object"
        /\ pending' = [pending EXCEPT ![t] = Idle]
        /\ call' = [NoCall EXCEPT !.op = "put_object", !.obj = p.obj,
                        !.path = p.path,
                        !.requests = reqs,
                        !.kind = o.kind, !.error = o.error,
                        !.headers = o.headers,
                        !.trace = <<"open">>
                                  \o [i \in 1..Len(reqs) |-> "request"]
                                  \o <<"close">>,
                        !.files = <<with_exit(p.files[1], o.kind)>>,
                        !.disp_error = raised_by(d)]
        /\ UNCHANGED <<bck_name, defaults, qparam>>

\* Object.get_object up to the blocking request: the bucket's dict is updated
\* and the request built from the value of the update.
get_object_send(t, archarg, chunkarg) ==
    LET archpath == ArgOr(archarg, DefaultArchpath)
        u        == dict_update(qparam, QParamArchpath, archpath)
        params   == u.ret
        r        == Request(HTTP_METHOD_GET, object_path(bck_name, obj_name(t)),
                            params, TRUE, {})
    IN  /\ pending[t] = Idle
        /\ qparam' = u.dict
        /\ pending' = [pending EXCEPT ![t] =
                          [Idle EXCEPT !.op = "get_object", !.obj = obj_name(t),
                                       !.archpath = archarg,
                                       !.chunk_size = chunkarg,
                                       !.request = {r}]]
        /\ UNCHANGED <<bck_name, defaults, call>>

\* Object.get_object from the dispatcher's answer d: the error propagates, or
\* the headers are read and the ObjStream returned.
get_object_recv(t, d) ==
    LET p          == pending[t]
        chunk_size == ArgOr(p.chunk_size, DefaultChunkSize)
        resp       == Response(d, TRUE)
        sent       == outcome_of(d, {})
        length     == content_length(d.headers)
        e_tag      == headers_get(d.headers, "ais-checksum-value", "")
        e_tag_type == headers_get(d.headers, "ais-checksum-type", "")
        o          == IF sent.kind = "raise" THEN sent
                      ELSE IF ~length.ok
                      THEN [kind |-> "raise", error |-> "ValueError", headers |-> {}]
                      ELSE sent
    IN  /\ p.op = "get_object"
        /\ pending' = [pending EXCEPT ![t] = Idle]
        /\ call' = [NoCall EXCEPT !.op = "get_object", !.obj = p.obj,
                        !.archpath = p.archpath, !.chunk_size = p.chunk_size,
                        !.requests = client_request(request_of(p), d),
                        !.kind = o.kind, !.error = o.error,
                        !.stream = IF o.kind = "return"
                                   THEN {ObjStream(length.val, e_tag, e_tag_type,
                                                   resp, chunk_size)}
                                   ELSE {},
                        !.trace = <<"update", "request">>,
                        !.disp_error = raised_by(d),
                        !.responses = IF d.raised THEN <<>> ELSE <<resp>>]
        /\ UNCHANGED <<bck_name, defaults, qparam>>

Next ==
    \/ \E t \in Threads : head_object_send(t)
    \/ \E t \in Threads, d \in PlainDisp : head_object_recv(t, d)
    \/ \E t \in Threads, a \in ArchArgs, c \in ChunkArgs : get_object_send(t, a, c)
    \/ \E t \in Threads, d \in Disp : get_object_recv(t, d)
    \/ \E t \in Threads, path \in LocalPaths, fs \in FsResults :
          put_object_send(t, path, fs)
    \/ \E t \in Threads, d \in PlainDisp : put_object_recv(t, d)
    \/ \E t \in Threads : delete_object_send(t)
    \/ \E t \in Threads, d \in PlainDisp : delete_object_recv(t, d)

Spec == Init /\ [][Next]_vars

----------------------------------------------------------------------------
(* Properties *)

Reqs == {call.requests[i] : i \in 1..Len(call.requests)}
Files == {call.files[i] : i \in 1..Len(call.files)}
Resps == {call.responses[i] : i \in 1..Len(call.responses)}

\* C1: no operation changes local state: the bucket's query parameters keep
\* the value they were constructed with, and every head_object, put_object
\* and delete_object request carries exactly those defaults (no archpath).
C1_NoLocalStateChange ==
    /\ qparam = defaults
    /\ call.op \in {"head_object", "put_object", "delete_object"} =>
          \A r \in Reqs : r.params = [kind |-> "dict", items |-> defaults]

\* C2: the GET request of get_object(a) carries the bucket defaults merged
\* with archpath = a: every default pair is present and so is archpath = a.
C2_GetParamsMerged ==
    call.op = "get_object" =>
        /\ Reqs # {}
        /\ \A r \in Reqs :
              /\ r.params.kind = "dict"
              /\ defaults \subseteq r.params.items
              /\ <<"archpath", IF call.archpath = {} THEN ""
                               ELSE CHOOSE a \in call.archpath : TRUE>>
                     \in r.params.items

\* C3: all four operations pass the dispatcher the same path,
\* objects/{bucket_name}/{object_name}, with no prefix or suffix.
C3_SamePath ==
    \A r \in Reqs : r.path = "objects/" \o bck_name \o "/" \o call.obj

\* C4: when the GET request succeeds get_object returns an Object Stream whose
\* content length is the integer value of a numeric content-length header and
\* 0 when the header is absent or not numeric; it never fails on the header.
C4_ContentLength ==
    (call.op = "get_object" /\ Resps # {}) =>
        /\ call.kind = "return"
        /\ \A resp \in Resps : \E s \in call.stream :
              LET cl == resp.headers["content-length"]
                  n  == IF cl = {} THEN [ok |-> FALSE, val |-> 0]
                        ELSE int_str(CHOOSE v \in cl : TRUE)
              IN  s.content_length = IF n.ok THEN n.val ELSE 0

\* C5: every file put_object opens is opened in binary read mode and is closed
\* when the call ends, whether the request returned or raised.
C5_FileClosed ==
    /\ \A f \in Files : f.mode = "rb" /\ f.closed
    /\ (call.op = "put_object" /\ call.error \notin FsErrors) =>
          Len(call.files) = 1 /\ call.path = {call.files[1].path}

\* C5 witness: a put_object whose request raised, its file closed.
C5_Witness ==
    /\ call.op = "put_object"
    /\ call.kind = "raise"
    /\ call.error = "ReadTimeout"
    /\ Len(call.files) = 1
    /\ call.files[1].closed

\* C6: when open() fails, put_object raises the filesystem error and the
\* dispatcher receives no request for that call; whenever a request is made
\* the open came first.
C6_OpenFailsNoRequest ==
    /\ (call.op = "put_object" /\ call.files = <<>>) =>
          /\ call.kind = "raise"
          /\ call.error \in FsErrors
          /\ call.requests = <<>>
          /\ "request" \notin {call.trace[i] : i \in 1..Len(call.trace)}
    /\ (call.op = "put_object" /\ call.requests # <<>>) =>
          call.trace[1] = "open" /\ call.files # <<>>

\* C6 witness: a put_object on a missing file, no request sent.
C6_Witness ==
    /\ call.op = "put_object"
    /\ call.error = "FileNotFoundError"
    /\ call.kind = "raise"
    /\ call.requests = <<>>

\* C7: every head_object, get_object and delete_object call, and every
\* put_object call on an openable file, sends exactly one request, whether
\* the request succeeds or fails.
C7_ExactlyOneRequest ==
    (\/ call.op \in {"head_object", "get_object", "delete_object"}
     \/ call.op = "put_object" /\ call.error \notin FsErrors) =>
        Len(call.requests) = 1

\* C7 witness: a head_object whose only request failed.
C7_Witness ==
    /\ call.op = "head_object"
    /\ call.disp_error = {"ConnectionError"}
    /\ Len(call.requests) = 1

\* C8: when the dispatcher raises, the operation raises that same error and
\* returns nothing: no header mapping and no Object Stream.
C8_ErrorsPropagate ==
    call.disp_error # {} =>
        /\ call.kind = "raise"
        /\ call.disp_error = {call.error}
        /\ call.headers = {}
        /\ call.stream = {}

\* C8 witness: a get_object on a missing object surfaces the 404.
C8_Witness ==
    /\ call.op = "get_object"
    /\ call.disp_error = {"HTTPError404"}
    /\ call.kind = "raise"
    /\ call.error = "HTTPError404"

\* C9: the Object Stream get_object returns has the checksum value and type
\* of the ais-checksum-value and ais-checksum-type response headers, each ""
\* when its header is absent, and the chunk size of the call (1 if omitted).
C9_ChecksumAndChunk ==
    (call.op = "get_object" /\ call.kind = "return") =>
        /\ Cardinality(call.stream) = 1
        /\ Len(call.responses) = 1
        /\ \A s \in call.stream :
              LET h  == call.responses[1].headers
                  cv == h["ais-checksum-value"]
                  ct == h["ais-checksum-type"]
              IN  /\ IF cv = {} THEN s.e_tag = "" ELSE s.e_tag \in cv
                  /\ IF ct = {} THEN s.e_tag_type = "" ELSE s.e_tag_type \in ct
                  /\ IF call.chunk_size = {} THEN s.chunk_size = 1
                     ELSE s.chunk_size \in call.chunk_size

\* C9 witness: a returned stream with a checksum value, no checksum type and
\* the default chunk size.
C9_Witness ==
    /\ call.op = "get_object"
    /\ call.kind = "return"
    /\ call.chunk_size = {}
    /\ \E s \in call.stream :
          s.e_tag = "abc123" /\ s.e_tag_type = "" /\ s.chunk_size = 1

\* C10: whenever the GET request succeeds, it was made in streaming mode and
\* its response is handed to the caller inside the returned Object Stream,
\* open and unread: no response opened by get_object is left without an owner.
C10_StreamOwned ==
    (call.op = "get_object" /\ Resps # {}) =>
        /\ \A r \in Reqs : r.stream
        /\ \A resp \in Resps :
              /\ resp.streamed /\ ~resp.closed /\ ~resp.body_read
              /\ call.kind = "return"
              /\ \E s \in call.stream : s.stream = resp
====
